---- MODULE Spec2Model ----
(***************************************************************************)
(* TIFF-Viewer-Pro: the TiffViewer React component                         *)
(* (src/src/app/components/TiffViewerComponent.tsx).                       *)
(*                                                                         *)
(* The model has one process per load (one run of the component's effect   *)
(* and of its async initViewer closure).  Every action is one continuation *)
(* of that closure: the code between two awaits, run to completion on the  *)
(* single JavaScript thread.  The pure helpers (validateTiff,              *)
(* normalizeToUint8Enhanced, normalizeToUint8, the RGBA assembly loops)    *)
(* are operators.                                                          *)
(***************************************************************************)
EXTENDS Integers, Sequences, FiniteSets, TLC

(***************************************************************************)
(* Bounds of the model.                                                    *)
(***************************************************************************)
\* Loads (effect runs) the component starts in one behaviour.
MaxLoads == 2
\* Chunks the stream reader delivers before it reports done.
MaxChunks == 3
\* Largest width and largest height of a decoded image.
MaxDim == 2
\* Largest number of samples readRasters returns (width*height*channels).
MaxSamples == 6
\* Largest samples-per-pixel value the container parser reports.
MaxSpp == 5
\* Largest number of whole seconds elapsed that Date.now() can show.
MaxElapsedSec == 1

(***************************************************************************)
(* Numbers: percents are exact rationals n/d (the code computes            *)
(* 10 + (downloadedSize / totalSize) * 50 in floating point).              *)
(***************************************************************************)
Pct(k) == [n |-> k, d |-> 1]

PctLE(a, b) == a.n * b.d <= b.n * a.d

PctLT(a, b) == a.n * b.d < b.n * a.d

PctEq(a, b) == a.n * b.d = b.n * a.d

\* Math.ceil(a / b), b > 0
CeilDiv(a, b) == -((-a) \div b)

\* Math.round(num / den), den > 0: JavaScript rounds halves towards +Infinity
JSRound(num, den) == (2 * num + den) \div (2 * den)

\* Math.floor(num / den), den > 0
JSFloor(num, den) == num \div den

MaxOf(a, b) == IF a >= b THEN a ELSE b

MinOf(a, b) == IF a <= b THEN a ELSE b

\* a store into a Uint8Array element: ToUint8 (modulo 2^8)
ToUint8(x) == x % 256

\* a store into a Uint8ClampedArray element
ToUint8Clamp(x) == IF x < 0 THEN 0 ELSE IF x > 255 THEN 255 ELSE x

\* 1 << b on 32-bit integers: the shift count is taken modulo 32
ShiftLeftOne(b) == IF b % 32 = 31 THEN -(2 ^ 31) ELSE 2 ^ (b % 32)

(***************************************************************************)
(* Float32 samples: a finite value v, NaN, +Infinity or -Infinity.         *)
(***************************************************************************)
Fin(v) == [cls |-> "fin", v |-> v]

NaN == [cls |-> "nan", v |-> 0]

PInf == [cls |-> "pinf", v |-> 0]

NInf == [cls |-> "ninf", v |-> 0]

isFinite(x) == x.cls = "fin"

\* a < b on numbers: every comparison with NaN is false
FloatLT(a, b) ==
    CASE a.cls = "nan" \/ b.cls = "nan" -> FALSE
      [] a.cls = "ninf" -> b.cls \in {"fin", "pinf"}
      [] a.cls = "fin" -> b.cls = "pinf" \/ (b.cls = "fin" /\ a.v < b.v)
      [] OTHER -> FALSE

\* a > b on numbers
FloatGT(a, b) == FloatLT(b, a)

(***************************************************************************)
(* normalizeToUint8Enhanced                                                *)
(***************************************************************************)
\* Uint8Array branch, with the plausible slip of copying 1-bit data too
EnhancedUint8_Copy(data, bitsPerSample) == data

\* Uint8Array branch binarizing whatever the bit depth
EnhancedUint8_Threshold(data, bitsPerSample) ==
    [i \in 1..Len(data) |-> IF data[i] > 0 THEN 255 ELSE 0]

\* Uint8Array branch: 1-bit data is binarized, 8-bit data is copied
EnhancedUint8(data, bitsPerSample) ==
    IF bitsPerSample = 1
    THEN [i \in 1..Len(data) |-> IF data[i] > 0 THEN 255 ELSE 0]
    ELSE data

\* the min/max scan of the Uint16Array branch, from index i on
RECURSIVE ScanMinU16(_, _, _)
ScanMinU16(data, i, cur) ==
    IF i > Len(data) THEN cur
    ELSE ScanMinU16(data, i + 1, IF data[i] < cur THEN data[i] ELSE cur)

RECURSIVE ScanMaxU16(_, _, _)
ScanMaxU16(data, i, cur) ==
    IF i > Len(data) THEN cur
    ELSE ScanMaxU16(data, i + 1, IF data[i] > cur THEN data[i] ELSE cur)

\* Math.round(Math.max(0, Math.min(255, ((v - minValue) / dataRange) * 255)))
StretchValue(v, minValue, dataRange) ==
    LET num == (v - minValue) * 255
    IN  IF num < 0 THEN 0
        ELSE IF num > 255 * dataRange THEN 255
        ELSE JSRound(num, dataRange)

\* the histogram stretch loop of the Uint16Array branch (dataRange > 0)
StretchU16(data, minValue, dataRange) ==
    [i \in 1..Len(data) |-> ToUint8(StretchValue(data[i], minValue, dataRange))]

\* the fallback as a plain high-byte conversion
FallbackU16_HighByte(minValue, bitsPerSample) == minValue \div 256

\* Math.round((minValue / ((1 << bitsPerSample) - 1)) * 255)
FallbackU16(minValue, bitsPerSample) ==
    JSRound(minValue * 255, ShiftLeftOne(bitsPerSample) - 1)

\* the Uint16Array branch scaling by the full range of the bit depth, as
\* normalizeToUint8 does, instead of by the observed range
EnhancedUint16_FullRange(data, bitsPerSample) ==
    [i \in 1..Len(data) |->
        ToUint8(JSFloor(data[i] * 255, ShiftLeftOne(bitsPerSample) - 1))]

\* Uint16Array branch (data is not empty)
EnhancedUint16(data, bitsPerSample) ==
    LET minValue == ScanMinU16(data, 2, data[1])
        maxValue == ScanMaxU16(data, 2, data[1])
        dataRange == maxValue - minValue
    IN  IF dataRange > 0
        THEN StretchU16(data, minValue, dataRange)
        ELSE [i \in 1..Len(data) |-> ToUint8(FallbackU16(minValue, bitsPerSample))]

\* the min scan without the isFinite test
RECURSIVE ScanMinF32_AnySample(_, _, _)
ScanMinF32_AnySample(data, i, cur) ==
    IF i > Len(data) THEN cur
    ELSE ScanMinF32_AnySample(data, i + 1,
            IF FloatLT(data[i], cur) THEN data[i] ELSE cur)

\* the min/max scan of the Float32Array branch: finite samples only
RECURSIVE ScanMinF32(_, _, _)
ScanMinF32(data, i, cur) ==
    IF i > Len(data) THEN cur
    ELSE ScanMinF32(data, i + 1,
            IF isFinite(data[i]) /\ FloatLT(data[i], cur) THEN data[i] ELSE cur)

RECURSIVE ScanMaxF32(_, _, _)
ScanMaxF32(data, i, cur) ==
    IF i > Len(data) THEN cur
    ELSE ScanMaxF32(data, i + 1,
            IF isFinite(data[i]) /\ FloatGT(data[i], cur) THEN data[i] ELSE cur)

\* |x| for an integer x
Abs(x) == IF x < 0 THEN -x ELSE x

\* Math.round(Math.abs(minValue) > 1 ? 255 : Math.abs(minValue) * 255)
FallbackF32(minValue) == IF Abs(minValue) > 1 THEN 255 ELSE Abs(minValue) * 255

\* Float32Array branch
EnhancedFloat32(data) ==
    LET minValue == ScanMinF32(data, 1, PInf)
        maxValue == ScanMaxF32(data, 1, NInf)
    IN  IF ~isFinite(minValue) \/ ~isFinite(maxValue)
        THEN [i \in 1..Len(data) |-> 0]
        ELSE LET dataRange == maxValue.v - minValue.v
             IN  IF dataRange > 0
                 THEN [i \in 1..Len(data) |->
                         IF isFinite(data[i])
                         THEN ToUint8(StretchValue(data[i].v, minValue.v, dataRange))
                         ELSE 0]
                 ELSE [i \in 1..Len(data) |-> ToUint8(FallbackF32(minValue.v))]

normalizeToUint8Enhanced(kind, data, bitsPerSample) ==
    CASE kind = "Uint8Array" -> EnhancedUint8(data, bitsPerSample)
      [] kind = "Uint16Array" -> EnhancedUint16(data, bitsPerSample)
      [] kind = "Float32Array" -> EnhancedFloat32(data)
      [] OTHER -> [i \in 1..Len(data) |-> 0]

(***************************************************************************)
(* normalizeToUint8 (the original normalizer)                              *)
(***************************************************************************)
\* Math.floor(Math.max(0, Math.min(1, x)) * 255) stored in a Uint8Array:
\* NaN propagates through min and max and is stored as 0
ClampUnitFloat(x) ==
    CASE x.cls = "nan" -> 0
      [] x.cls = "pinf" -> 255
      [] x.cls = "ninf" -> 0
      [] OTHER -> IF x.v <= 0 THEN 0 ELSE 255

normalizeToUint8(kind, data, bitsPerSample) ==
    CASE kind = "Uint8Array" -> data
      [] kind = "Uint16Array" ->
            [i \in 1..Len(data) |->
                ToUint8(JSFloor(data[i] * 255, ShiftLeftOne(bitsPerSample) - 1))]
      [] kind = "Float32Array" ->
            [i \in 1..Len(data) |-> ClampUnitFloat(data[i])]
      [] OTHER -> [i \in 1..Len(data) |-> 0]

\* the input array after a normalizer that stretched a Uint16Array in place
DataAfterNormalize_InPlace(kind, data, bitsPerSample) ==
    IF kind = "Uint16Array" THEN EnhancedUint16(data, bitsPerSample) ELSE data

\* the input array after either normalizer returned: both only read data[i]
\* and store into result, a new Uint8Array (or return data itself untouched)
DataAfterNormalize(kind, data, bitsPerSample) == data

(***************************************************************************)
(* The RGBA assembly loops of loadAndProcessTiff.  pixelData is a          *)
(* zero-filled Uint8ClampedArray of width*height*4 bytes; a write past its *)
(* end is dropped and a read past the end of normalizedData is undefined,  *)
(* which is stored as 0.                                                   *)
(***************************************************************************)
At(seq, i) == IF i >= 1 /\ i <= Len(seq) THEN seq[i] ELSE 0

\* the grayscale loop without its alpha store
AssembleGray_NoAlpha(normalizedData, size) ==
    [k \in 1..size |->
        LET i == (k - 1) \div 4
            c == (k - 1) % 4
        IN  IF i < Len(normalizedData) /\ c < 3
            THEN ToUint8Clamp(normalizedData[i + 1])
            ELSE 0]

\* for (i = 0; i < normalizedData.length; i++): R = G = B = value, A = 255
AssembleGray(normalizedData, size) ==
    [k \in 1..size |->
        LET i == (k - 1) \div 4
            c == (k - 1) % 4
        IN  IF i < Len(normalizedData)
            THEN IF c = 3 THEN 255 ELSE ToUint8Clamp(normalizedData[i + 1])
            ELSE 0]

\* the RGB loop storing the channels in the order B, G, R
AssembleRGB_Swapped(normalizedData, size) ==
    [k \in 1..size |->
        LET p == (k - 1) \div 4
            c == (k - 1) % 4
        IN  IF 3 * p < Len(normalizedData)
            THEN IF c = 3 THEN 255
                 ELSE ToUint8Clamp(At(normalizedData, 3 * p + (2 - c) + 1))
            ELSE 0]

\* for (i = 0, j = 0; i < normalizedData.length; i += 3, j += 4)
AssembleRGB(normalizedData, size) ==
    [k \in 1..size |->
        LET p == (k - 1) \div 4
            c == (k - 1) % 4
        IN  IF 3 * p < Len(normalizedData)
            THEN IF c = 3 THEN 255
                 ELSE ToUint8Clamp(At(normalizedData, 3 * p + c + 1))
            ELSE 0]

\* the multi-band branch always taking the original normalizer
SelectNormalizerRGB_Original(kind, data, bitsPerSampleValue) ==
    normalizeToUint8(kind, data, bitsPerSampleValue)

\* bitsPerSampleValue >= 16 ? normalizeToUint8Enhanced : normalizeToUint8
SelectNormalizerRGB(kind, data, bitsPerSampleValue) ==
    IF bitsPerSampleValue >= 16
    THEN normalizeToUint8Enhanced(kind, data, bitsPerSampleValue)
    ELSE normalizeToUint8(kind, data, bitsPerSampleValue)

\* the samples readRasters is asked for: [0] or [0, 1, 2]
ChannelsRead(samplesPerPixel) == IF samplesPerPixel = 1 THEN 1 ELSE 3

(***************************************************************************)
(* validateTiff                                                            *)
(***************************************************************************)
\* getUint16 reading little-endian whatever the flag
GetUint16At2_LittleEndian(buffer, littleEndian) == buffer[3] + 256 * buffer[4]

\* view.getUint16(2, littleEndian) on a buffer of bytes (1-based here)
GetUint16At2(buffer, littleEndian) ==
    IF littleEndian THEN buffer[3] + 256 * buffer[4]
    ELSE 256 * buffer[3] + buffer[4]

\* validateTiff asking only for the four bytes it reads
validateTiff_FourBytes(buffer) ==
    IF Len(buffer) < 4
    THEN [isValid |-> FALSE, message |-> "File is too small to be a valid TIFF"]
    ELSE IF buffer[1] = buffer[2] /\ buffer[1] \in {73, 77}
              /\ GetUint16At2(buffer, buffer[1] = 73) = 42
         THEN [isValid |-> TRUE, message |-> "Valid TIFF file"]
         ELSE [isValid |-> FALSE, message |-> "Invalid TIFF magic number"]

\* validateTiff without the length test, a byte past the end read as 0
validateTiff_NoLengthTest(buffer) ==
    LET b == [i \in 1..4 |-> IF i <= Len(buffer) THEN buffer[i] ELSE 0]
    IN  IF ~(b[1] = b[2] /\ b[1] \in {73, 77})
        THEN [isValid |-> FALSE, message |-> "Invalid TIFF byte order marker"]
        ELSE IF GetUint16At2(b, b[1] = 73) # 42
             THEN [isValid |-> FALSE, message |-> "Invalid TIFF magic number"]
             ELSE [isValid |-> TRUE, message |-> "Valid TIFF file"]

\* validateTiff letting the text of a DataView RangeError out on a short buffer
validateTiff_RangeError(buffer) ==
    IF Len(buffer) < 8
    THEN [isValid |-> FALSE, message |-> "Offset is outside the bounds of the DataView"]
    ELSE [isValid |-> buffer[1] = buffer[2] /\ buffer[1] \in {73, 77}
                          /\ GetUint16At2(buffer, buffer[1] = 73) = 42,
          message |-> "Valid TIFF file"]

validateTiff(buffer) ==
    IF Len(buffer) < 8
    THEN [isValid |-> FALSE, message |-> "File is too small to be a valid TIFF"]
    ELSE LET isII == buffer[1] = 73 /\ buffer[2] = 73
             isMM == buffer[1] = 77 /\ buffer[2] = 77
         IN  IF ~isII /\ ~isMM
             THEN [isValid |-> FALSE, message |-> "Invalid TIFF byte order marker"]
             ELSE IF GetUint16At2(buffer, isII) # 42
                  THEN [isValid |-> FALSE, message |-> "Invalid TIFF magic number"]
                  ELSE [isValid |-> TRUE, message |-> "Valid TIFF file"]

(***************************************************************************)
(* Progress and ETA arithmetic of loadAndProcessTiff and of the progress   *)
(* callback initViewer passes to it.  An ETA of 0 stands for "no estimate" *)
(* (the argument left out, or the state's null).                           *)
(***************************************************************************)
\* 10 + downloadProgress without the Math.min(..., 50) clamp
DownloadPercent_NoClamp(downloadedSize, totalSize) ==
    [n |-> 10 * totalSize + 50 * downloadedSize, d |-> totalSize]

\* 10 + downloadProgress clamped at 100 instead of 50
DownloadPercent_WideClamp(downloadedSize, totalSize) ==
    [n |-> 10 * totalSize + MinOf(50 * downloadedSize, 100 * totalSize),
     d |-> totalSize]

\* 10 + Math.min((downloadedSize / totalSize) * 50, 50), totalSize > 0
DownloadPercent(downloadedSize, totalSize) ==
    [n |-> 10 * totalSize + MinOf(50 * downloadedSize, 50 * totalSize),
     d |-> totalSize]

\* Math.max(3, ceil(totalSize / 1MB) + ceil(totalSize / 5MB)), or 15
InitialEstimate(totalSize) ==
    IF totalSize > 0
    THEN MaxOf(3, CeilDiv(totalSize, 1024 * 1024) + CeilDiv(totalSize, 5 * 1024 * 1024))
    ELSE 15

\* Math.ceil((remainingBytes / downloadSpeed + processingTimeEstimate) / 1000)
EstimatedSeconds(downloadedSize, totalSize, elapsedMs) ==
    CeilDiv((totalSize - downloadedSize) * elapsedMs * 1024 * 1024
                + totalSize * 100 * downloadedSize,
            downloadedSize * 1024 * 1024 * 1000)

\* the ETA argument of the per-chunk progress call
ChunkEta(downloadedSize, totalSize, elapsedMs) ==
    IF totalSize > 0
    THEN IF downloadedSize > 1024 /\ elapsedMs > 500
         THEN MaxOf(1, EstimatedSeconds(downloadedSize, totalSize, elapsedMs))
         ELSE CeilDiv(6 * totalSize, 5 * 1024 * 1024)
    ELSE MaxOf(3, 15 - (elapsedMs \div 1000))

\* the ETA the progress callback stores for a call (progress, stage, eta)
CallbackEta(call) ==
    IF call.eta > 0 THEN call.eta
    ELSE IF PctLE(Pct(60), call.p) /\ PctLT(call.p, Pct(100))
         THEN MaxOf(1, CeilDiv(100 * call.p.d - call.p.n, 15 * call.p.d))
         ELSE IF PctLT(call.p, Pct(60))
              THEN MaxOf(2, CeilDiv(60 * call.p.d - call.p.n, 10 * call.p.d))
              ELSE 1

\* one invocation of the progress sink
Call(p, stage, eta) == [p |-> p, stage |-> stage, eta |-> eta]

\* progressMessage of the decode branch taken
ProgressMessage(samplesPerPixel, bits) ==
    IF samplesPerPixel = 1
    THEN CASE bits = 1 -> "Processing bitonal (black & white) image..."
           [] bits = 16 -> "Processing medical/radiography image..."
           [] bits = 32 -> "Processing scientific analysis image..."
           [] OTHER -> "Processing grayscale image..."
    ELSE CASE bits = 8 /\ samplesPerPixel = 3 -> "Processing 24-bit true color image..."
           [] bits = 16 /\ samplesPerPixel = 3 ->
                "Processing 48-bit high-precision color image..."
           [] bits = 16 -> "Processing high-precision color image..."
           [] bits = 32 -> "Processing scientific color analysis image..."
           [] OTHER -> "Processing multi-channel image..."

ConvertMessage(samplesPerPixel) ==
    IF samplesPerPixel = 1 THEN "Converting to display format..."
    ELSE "Converting RGB to display format..."

(***************************************************************************)
(* Inputs: what the transport, the container parser and the clock hand to  *)
(* the component.                                                          *)
(***************************************************************************)
Loads == 1..MaxLoads

\* "II", 42 little-endian, offset of the first IFD
HeaderII == <<73, 73, 42, 0, 8, 0, 0, 0>>

\* "MM", 42 big-endian, offset of the first IFD
HeaderMM == <<77, 77, 0, 42, 0, 0, 0, 8>>

\* chunks a stream delivers: whole headers, a header split in two, bytes that
\* are no TIFF header, an empty chunk
LoadChunks ==
    {HeaderII, HeaderMM, <<73, 73, 42, 0>>, <<8, 0, 0, 0>>, <<0, 0>>, <<>>}

\* content-length values; 0 stands for a missing, empty or zero header
LoadTotals == {0, 4, 8, 16}

\* responses fetch resolves with: response.ok, response.status, response.statusText
Response(status, statusText) ==
    [ok |-> status >= 200 /\ status <= 299, status |-> status, statusText |-> statusText]

NoResponse == [ok |-> FALSE, status |-> 0, statusText |-> ""]

OkResponse == Response(200, "OK")

Responses == {OkResponse, Response(404, "Not Found"), Response(500, "Internal Server Error")}

\* Date.now() - startTime, in milliseconds
ElapsedMs == {1000 * s : s \in 0..MaxElapsedSec}

\* the typed array readRasters returns for each bits-per-sample value
ImageTypes ==
    {[bits |-> 1, kind |-> "Uint8Array"], [bits |-> 8, kind |-> "Uint8Array"],
     [bits |-> 16, kind |-> "Uint16Array"], [bits |-> 32, kind |-> "Float32Array"]}

Image(w, h, s, t) ==
    [width |-> w, height |-> h, samplesPerPixel |-> s, bits |-> t.bits, kind |-> t.kind]

NoImage ==
    [width |-> 0, height |-> 0, samplesPerPixel |-> 0, bits |-> 0, kind |-> "none"]

\* every image within the bounds
AllImages ==
    {Image(w, h, s, t) : w \in 1..MaxDim, h \in 1..MaxDim, s \in 0..MaxSpp, t \in ImageTypes}

BoundedImages == {im \in AllImages :
    im.width * im.height * ChannelsRead(im.samplesPerPixel) <= MaxSamples}

\* one-pixel images of every type and channel count
OnePixelImages == {im \in AllImages : im.width = 1 /\ im.height = 1}

\* the images of the component-level specification
SmallImages == {im \in OnePixelImages : im.bits = 8 /\ im.samplesPerPixel \in 1..2}

\* sample values of single-channel rasters
GraySamples(kind) ==
    CASE kind = "Uint8Array" -> {0, 5, 64, 128, 255}
      [] kind = "Uint16Array" -> {100, 200, 300, 400, 500}
      [] OTHER -> {NaN, PInf, NInf, Fin(-1), Fin(0), Fin(3)}

\* sample values of multi-channel rasters
RGBSamples(kind) ==
    CASE kind = "Uint8Array" -> {0, 10, 20, 30}
      [] kind = "Uint16Array" -> {100, 200, 400, 500}
      [] OTHER -> {NaN, PInf, Fin(0), Fin(2)}

SampleCount(im) == im.width * im.height * ChannelsRead(im.samplesPerPixel)

\* every raster readRasters can return for an image
Rasters(im) ==
    [1..SampleCount(im) ->
        IF im.samplesPerPixel = 1 THEN GraySamples(im.kind) ELSE RGBSamples(im.kind)]

\* one raster per image
FixedRaster(im) ==
    [i \in 1..SampleCount(im) |->
        CASE im.kind = "Uint8Array" -> 10 * i
          [] im.kind = "Uint16Array" -> 100 * i
          [] OTHER -> Fin(i)]

(***************************************************************************)
(* State.                                                                  *)
(***************************************************************************)
VARIABLES
    isLoading,        \* useState(true)
    error,            \* useState(null): "null" or the message
    loadingProgress,  \* useState(0): a percent n/d
    estimatedTime,    \* useState(null): seconds, 0 for null
    loadingStage,     \* useState("Initializing...")
    viewerInstance,   \* useRef(null): 0 for null, else the load whose widget it holds
    alive,            \* the component is mounted (viewerRef.current is its div)
    started,          \* effect runs so far; the last one is the current load
    timers,           \* loads whose 500 ms setTimeout is pending
    load,             \* per load: the closure's position and locals
    hist              \* per load: what it handed to the sinks and the widget

vars == <<isLoading, error, loadingProgress, estimatedTime, loadingStage,
          viewerInstance, alive, started, timers, load, hist>>

\* the result record of validateTiff before it was called
NoValidation == [isValid |-> FALSE, message |-> ""]

\* response, hasBody: what fetch resolved with; reported: the percent the
\* chunk loop passed to onProgress for each chunk; validation: what validateTiff
\* returned; raster: the array readRasters returned, data: the same array
\* after the normalizer ran on it; second: the output of a second application
IdleLoad ==
    [pc |-> "idle", isMounted |-> FALSE, response |-> NoResponse, hasBody |-> FALSE,
     totalSize |-> 0, downloadedSize |-> 0,
     chunks |-> <<>>, reported |-> <<>>, arrayBuffer |-> <<>>, validation |-> NoValidation,
     image |-> NoImage, raster |-> <<>>, data |-> <<>>,
     normalizedData |-> <<>>, pixelData |-> <<>>, second |-> <<>>, err |-> <<>>]

\* sinkPrev, emitted: the last percent the progress sink got before the load's
\*   latest continuation, and the percents that continuation passed to it;
\* writePrev, written: the same for the writes to loadingProgress;
\* onErrorCalls: the errors passed to onError; onLoadHandlers: addHandler calls;
\* widget: "none", "live" (constructed) or "destroyed";
\* reset: the progress state the effect and initViewer set at the load's start
NoHist ==
    [sinkPrev |-> Pct(0), emitted |-> <<>>, writePrev |-> Pct(0), written |-> <<>>,
     onErrorCalls |-> <<>>, onLoadHandlers |-> 0, widget |-> "none", reset |-> <<>>]

Init ==
    /\ isLoading = TRUE
    /\ error = "null"
    /\ loadingProgress = Pct(0)
    /\ estimatedTime = 0
    /\ loadingStage = "Initializing..."
    /\ viewerInstance = 0
    /\ alive = TRUE
    /\ started = 0
    /\ timers = {}
    /\ load = [l \in Loads |-> IdleLoad]
    /\ hist = [l \in Loads |-> NoHist]

Last(s) == s[Len(s)]

Percents(calls) == [i \in 1..Len(calls) |-> calls[i].p]

\* the outer catch of loadAndProcessTiff
WrapLoad(e) == <<"Failed to load TIFF image">> \o e

\* the inner catch of loadAndProcessTiff
WrapParse(e) == <<"Failed to parse TIFF image">> \o e

\* the log of a sink after a continuation that passed it ps
LogPrev(prev, batch, ps) ==
    IF ps = <<>> THEN prev ELSE IF batch = <<>> THEN prev ELSE Last(batch)

LogBatch(batch, ps) == IF ps = <<>> THEN batch ELSE ps

(***************************************************************************)
(* The effect: cleanup of the previous run, the resets, and initViewer up  *)
(* to its first await.                                                     *)
(***************************************************************************)
\* setLoadingProgress(0), setLoadingStage("Initializing..."),
\* setEstimatedTime(15): the reset at the start of a load
ResetState == <<[p |-> Pct(0), stage |-> "Initializing...", eta |-> 15]>>

\* the effect body without initViewer's setError(null)
RunEffect_KeepsError(l, cleaned) ==
    /\ started' = l
    /\ isLoading' = TRUE
    /\ error' = error
    /\ loadingProgress' = Pct(2)
    /\ estimatedTime' = 12
    /\ loadingStage' = "Loading OpenSeadragon..."
    /\ load' = [cleaned EXCEPT ![l] = [IdleLoad EXCEPT !.pc = "osd", !.isMounted = TRUE]]
    /\ UNCHANGED <<alive, timers>>

\* the effect body and initViewer up to "await loadOpenSeadragon()"
RunEffect(l, cleaned) ==
    /\ started' = l
    /\ isLoading' = TRUE
    /\ error' = "null"
    /\ loadingProgress' = Pct(2)
    /\ estimatedTime' = 12
    /\ loadingStage' = "Loading OpenSeadragon..."
    /\ load' = [cleaned EXCEPT ![l] = [IdleLoad EXCEPT !.pc = "osd", !.isMounted = TRUE]]
    /\ UNCHANGED <<alive, timers>>

\* the first run of the effect, after the first render
Mount ==
    /\ alive
    /\ started = 0
    /\ RunEffect(1, load)
    /\ hist' = [hist EXCEPT ![1].written = <<Pct(0), Pct(0), Pct(2)>>,
                            ![1].reset = ResetState]
    /\ UNCHANGED viewerInstance

\* the cleanup function of the run of load l
CleanedLoads(l) == [load EXCEPT ![l].isMounted = FALSE]

\* a cleanup that leaves the widget alone
CleanedHist_NoDestroy == hist

\* viewerInstance.current.destroy() when there is a widget
CleanedHist ==
    IF viewerInstance # 0
    THEN [hist EXCEPT ![viewerInstance].widget = "destroyed"]
    ELSE hist

\* tiffPath (or onError, onLoad) changed: cleanup, then the effect again
ChangePath ==
    /\ alive
    /\ started >= 1
    /\ started < MaxLoads
    /\ RunEffect(started + 1, CleanedLoads(started))
    /\ hist' = [CleanedHist EXCEPT ![started + 1].written = <<Pct(0), Pct(0), Pct(2)>>,
                                   ![started + 1].reset = ResetState]
    /\ viewerInstance' = 0

\* the component is unmounted: cleanup only
Unmount ==
    /\ alive
    /\ started >= 1
    /\ alive' = FALSE
    /\ load' = CleanedLoads(started)
    /\ hist' = CleanedHist
    /\ viewerInstance' = 0
    /\ UNCHANGED <<isLoading, error, loadingProgress, estimatedTime, loadingStage,
                   started, timers>>

(***************************************************************************)
(* One continuation of load l inside loadAndProcessTiff: it passes calls   *)
(* to the progress callback and leaves the closure at rec; rec.pc =        *)
(* "failed" is the catch block of initViewer with rec.err as the error.    *)
(* A state setter of an unmounted component changes nothing.               *)
(***************************************************************************)
Continue(l, calls, rec) ==
    \E r \in {rec} :
    LET failed == r.pc = "failed"
        ps == Percents(calls)
    IN  /\ load' = [load EXCEPT ![l] = r]
        /\ loadingProgress' =
              IF calls # <<>> /\ alive THEN Last(calls).p ELSE loadingProgress
        /\ loadingStage' =
              IF calls # <<>> /\ alive THEN Last(calls).stage ELSE loadingStage
        /\ estimatedTime' =
              IF calls # <<>> /\ alive THEN CallbackEta(Last(calls)) ELSE estimatedTime
        /\ error' = IF failed /\ alive THEN "Failed to load TIFF image" ELSE error
        /\ isLoading' = IF failed /\ alive THEN FALSE ELSE isLoading
        /\ hist' = [hist EXCEPT ![l] =
              [@ EXCEPT !.sinkPrev = LogPrev(@, hist[l].emitted, ps),
                        !.emitted = LogBatch(@, ps),
                        !.writePrev = LogPrev(@, hist[l].written, ps),
                        !.written = LogBatch(@, ps),
                        !.onErrorCalls = IF failed THEN Append(@, r.err) ELSE @]]
        /\ UNCHANGED <<viewerInstance, alive, started, timers>>

\* a catch that records the error and lets the closure go on
Failed_GoesOn(l, e) == [load[l] EXCEPT !.err = e]

Failed(l, e) == [load[l] EXCEPT !.pc = "failed", !.err = e]

(***************************************************************************)
(* initViewer and loadAndProcessTiff, one action per continuation.         *)
(***************************************************************************)
\* loadOpenSeadragon resolved: loadAndProcessTiff runs up to "await fetch(url)"
OsdResolved(l) ==
    /\ load[l].pc = "osd"
    /\ Continue(l, <<Call(Pct(5), "Downloading TIFF file...", 0)>>,
                [load[l] EXCEPT !.pc = "fetch"])

\* loadOpenSeadragon rejected: the script did not load
OsdRejected(l) ==
    /\ load[l].pc = "osd"
    /\ Continue(l, <<>>, Failed(l, <<"Failed to load OpenSeadragon">>))

\* fetch rejected (network failure)
FetchRejected(l) ==
    /\ load[l].pc = "fetch"
    /\ Continue(l, <<>>, Failed(l, WrapLoad(<<"fetch rejected">>)))

\* the error loadAndProcessTiff throws on a response, <<>> for none, without
\* the check of response.ok
ResponseError_IgnoreOk(response, hasBody) ==
    IF ~hasBody THEN <<"Could not get stream reader">> ELSE <<>>

\* the error loadAndProcessTiff throws on a response, <<>> for none
ResponseError(response, hasBody) ==
    IF ~response.ok
    THEN <<"Failed to fetch TIFF", response.status, response.statusText>>
    ELSE IF ~hasBody THEN <<"Could not get stream reader">> ELSE <<>>

\* fetch resolved with a response, its content-length, a body or none
FetchResolved(l, response, totalSize, hasBody) ==
    /\ load[l].pc = "fetch"
    /\ LET estimate == Call(Pct(5), "Downloading TIFF file...", InitialEstimate(totalSize))
           e == ResponseError(response, hasBody)
           got == [load[l] EXCEPT !.response = response, !.hasBody = hasBody]
       IN  IF e # <<>>
           THEN Continue(l, IF response.ok THEN <<estimate>> ELSE <<>>,
                         [got EXCEPT !.pc = "failed", !.err = WrapLoad(e)])
           ELSE Continue(l, <<estimate, Call(Pct(10), "Downloading data...", 0)>>,
                         [got EXCEPT !.pc = "read", !.totalSize = totalSize])

\* reader.read() resolved with a chunk
ReadChunk(l, value, elapsedMs) ==
    /\ load[l].pc = "read"
    /\ Len(load[l].chunks) < MaxChunks
    /\ LET downloadedSize == load[l].downloadedSize + Len(value)
           totalSize == load[l].totalSize
           percent == IF totalSize > 0 THEN DownloadPercent(downloadedSize, totalSize)
                      ELSE Pct(20)
       IN  Continue(l, <<Call(percent, "Downloading data...",
                              ChunkEta(downloadedSize, totalSize, elapsedMs))>>,
                    [load[l] EXCEPT !.chunks = Append(@, value),
                                    !.reported = Append(@, percent),
                                    !.downloadedSize = downloadedSize])

\* reader.read() rejected
ReadRejected(l) ==
    /\ load[l].pc = "read"
    /\ Continue(l, <<>>, Failed(l, WrapLoad(<<"read rejected">>)))

\* the assembly writing each chunk in front of the bytes already placed
RECURSIVE Assemble_Reversed(_, _, _)
Assemble_Reversed(chunks, i, buffer) ==
    IF i > Len(chunks) THEN buffer
    ELSE Assemble_Reversed(chunks, i + 1, chunks[i] \o buffer)

\* uint8Array.set(chunk, offset) for every chunk, offset += chunk.length
RECURSIVE Assemble(_, _, _)
Assemble(chunks, i, buffer) ==
    IF i > Len(chunks) THEN buffer
    ELSE Assemble(chunks, i + 1, buffer \o chunks[i])

\* reader.read() resolved with done: assembly, validation, up to
\* "await GeoTIFF.fromArrayBuffer(arrayBuffer)"
ReadDone(l) ==
    /\ load[l].pc = "read"
    /\ LET arrayBuffer == Assemble(load[l].chunks, 1, <<>>)
           validation == validateTiff(arrayBuffer)
           c60 == Call(Pct(60), "Validating TIFF file...", 0)
           c70 == Call(Pct(70), "Processing TIFF image...", 0)
       IN  IF ~validation.isValid
           THEN Continue(l, <<c60>>,
                    [Failed(l, WrapLoad(<<"Invalid TIFF file", validation.message>>))
                        EXCEPT !.arrayBuffer = arrayBuffer, !.validation = validation])
           ELSE Continue(l, <<c60, c70>>,
                    [load[l] EXCEPT !.pc = "parse", !.arrayBuffer = arrayBuffer,
                                    !.validation = validation])

\* fromArrayBuffer resolved: up to "await tiff.getImage(0)"
ParseResolved(l) ==
    /\ load[l].pc = "parse"
    /\ Continue(l, <<Call(Pct(75), "Reading image metadata...", 0)>>,
                [load[l] EXCEPT !.pc = "image"])

\* fromArrayBuffer rejected: the parser refuses the buffer
ParseRejected(l) ==
    /\ load[l].pc = "parse"
    /\ Continue(l, <<>>, Failed(l, WrapLoad(WrapParse(<<"fromArrayBuffer rejected">>))))

\* getImage resolved: the metadata, the channel dispatch, up to
\* "await image.readRasters(...)"
GetImageResolved(l, im) ==
    /\ load[l].pc = "image"
    /\ LET c80 == Call(Pct(80), "Extracting pixel data...", 0)
           c85 == Call(Pct(85), ProgressMessage(im.samplesPerPixel, im.bits), 0)
       IN  IF im.samplesPerPixel = 1 \/ im.samplesPerPixel >= 3
           THEN Continue(l, <<c80, c85>>,
                         [load[l] EXCEPT !.pc = "rasters", !.image = im])
           ELSE Continue(l, <<c80>>,
                    [Failed(l, WrapLoad(WrapParse(
                        <<"Unsupported number of samples per pixel">>)))
                        EXCEPT !.image = im])

\* getImage rejected
GetImageRejected(l) ==
    /\ load[l].pc = "image"
    /\ Continue(l, <<>>, Failed(l, WrapLoad(WrapParse(<<"getImage rejected">>))))

\* readRasters resolved with data: normalization, RGBA assembly, ImageData,
\* and the return to initViewer's "await loadAndProcessTiff(...)"
RastersResolved(l, data) ==
    /\ load[l].pc = "rasters"
    /\ LET im == load[l].image
           size == im.width * im.height * 4
       IN  \E normalizedData \in
                {IF im.samplesPerPixel = 1
                 THEN normalizeToUint8Enhanced(im.kind, data, im.bits)
                 ELSE SelectNormalizerRGB(im.kind, data, im.bits)} :
           \E pixelData \in
                {IF im.samplesPerPixel = 1 THEN AssembleGray(normalizedData, size)
                 ELSE AssembleRGB(normalizedData, size)} :
           Continue(l, <<Call(Pct(90), ConvertMessage(im.samplesPerPixel), 0),
                         Call(Pct(95), "Creating final image...", 0),
                         Call(Pct(100), "Loading completed!", 0)>>,
                    [load[l] EXCEPT !.pc = "loaded", !.raster = data,
                                    !.data = DataAfterNormalize(im.kind, data, im.bits),
                                    !.normalizedData = normalizedData,
                                    !.pixelData = pixelData])

\* the normalizer and the assembly loop applied a second time, to the array
\* the first application left in data
NormalizeAgain(l) ==
    /\ load[l].pc = "loaded"
    /\ load[l].second = <<>>
    /\ LET im == load[l].image
           size == im.width * im.height * 4
           data == load[l].data
       IN  \E normalizedData \in
                {IF im.samplesPerPixel = 1
                 THEN normalizeToUint8Enhanced(im.kind, data, im.bits)
                 ELSE SelectNormalizerRGB(im.kind, data, im.bits)} :
           load' = [load EXCEPT
                      ![l].second =
                          <<[normalizedData |-> normalizedData,
                             pixelData |->
                                IF im.samplesPerPixel = 1
                                THEN AssembleGray(normalizedData, size)
                                ELSE AssembleRGB(normalizedData, size)]>>,
                      ![l].data = DataAfterNormalize(im.kind, data, im.bits)]
    /\ UNCHANGED <<isLoading, error, loadingProgress, estimatedTime, loadingStage,
                   viewerInstance, alive, started, timers, hist>>

\* readRasters rejected
RastersRejected(l) ==
    /\ load[l].pc = "rasters"
    /\ Continue(l, <<>>, Failed(l, WrapLoad(WrapParse(<<"readRasters rejected">>))))

\* loadAndProcessTiff resolved: the canvas, the widget, the success tail.
\* hasContext is whether canvas.getContext("2d") returned a context.
PrepareViewer(l, hasContext) ==
    /\ load[l].pc = "loaded"
    /\ LET create == alive /\ load[l].isMounted
           ws == IF hasContext THEN <<Pct(98), Pct(100)>> ELSE <<Pct(98)>>
           h == [hist[l] EXCEPT !.writePrev = LogPrev(@, hist[l].written, ws),
                                !.written = ws]
       IN  IF ~hasContext
           THEN /\ load' = [load EXCEPT ![l] =
                                Failed(l, <<"Could not create canvas context">>)]
                /\ loadingStage' = IF alive THEN "Preparing viewer..." ELSE loadingStage
                /\ loadingProgress' = IF alive THEN Pct(98) ELSE loadingProgress
                /\ error' = IF alive THEN "Failed to load TIFF image" ELSE error
                /\ isLoading' = IF alive THEN FALSE ELSE isLoading
                /\ hist' = [hist EXCEPT ![l] =
                      [h EXCEPT !.onErrorCalls =
                            Append(@, <<"Could not create canvas context">>)]]
                /\ UNCHANGED <<estimatedTime, viewerInstance, alive, started, timers>>
           ELSE /\ load' = [load EXCEPT ![l].pc = "done"]
                /\ loadingStage' =
                      IF alive THEN "Image loaded successfully!" ELSE loadingStage
                /\ loadingProgress' = IF alive THEN Pct(100) ELSE loadingProgress
                /\ viewerInstance' = IF create THEN l ELSE viewerInstance
                /\ hist' = [hist EXCEPT ![l] =
                      IF create
                      THEN [h EXCEPT !.widget = "live", !.onLoadHandlers = @ + 1]
                      ELSE h]
                /\ timers' = timers \cup {l}
                /\ UNCHANGED <<estimatedTime, error, isLoading, alive, started>>

\* the 500 ms timer of load l fires: setIsLoading(false)
TimerFires(l) ==
    /\ l \in timers
    /\ timers' = timers \ {l}
    /\ isLoading' = IF alive THEN FALSE ELSE isLoading
    /\ load' = [load EXCEPT ![l].pc = "settled"]
    /\ UNCHANGED <<error, loadingProgress, estimatedTime, loadingStage,
                   viewerInstance, alive, started, hist>>

(***************************************************************************)
(* Spec: the component with up to MaxLoads loads in flight, each load's    *)
(* stream delivering at most one header chunk of a one-pixel 8-bit image.  *)
(***************************************************************************)
Next ==
    \/ Mount
    \/ ChangePath
    \/ Unmount
    \/ \E l \in Loads : OsdResolved(l)
    \/ \E l \in Loads : OsdRejected(l)
    \/ \E l \in Loads : FetchRejected(l)
    \/ \E l \in Loads, response \in {OkResponse, Response(404, "Not Found")},
            hasBody \in BOOLEAN, t \in {8} :
            FetchResolved(l, response, t, hasBody)
    \/ \E l \in Loads : load[l].chunks = <<>> /\ ReadChunk(l, HeaderII, 0)
    \/ \E l \in Loads : ReadRejected(l)
    \/ \E l \in Loads : ReadDone(l)
    \/ \E l \in Loads : ParseResolved(l)
    \/ \E l \in Loads : ParseRejected(l)
    \/ \E l \in Loads, im \in SmallImages : GetImageResolved(l, im)
    \/ \E l \in Loads : GetImageRejected(l)
    \/ \E l \in Loads : RastersResolved(l, FixedRaster(load[l].image))
    \/ \E l \in Loads : RastersRejected(l)
    \/ \E l \in Loads, hasContext \in BOOLEAN : PrepareViewer(l, hasContext)
    \/ \E l \in Loads : TimerFires(l)

Spec == Init /\ [][Next]_vars

(***************************************************************************)
(* SpecLoad: one load, every chunk sequence, content-length and one-pixel  *)
(* image within the bounds.                                                *)
(***************************************************************************)
NextLoad ==
    \/ Mount
    \/ OsdResolved(1)
    \/ OsdRejected(1)
    \/ FetchRejected(1)
    \/ \E response \in Responses, hasBody \in BOOLEAN, t \in LoadTotals :
            FetchResolved(1, response, t, hasBody)
    \/ \E value \in LoadChunks, e \in ElapsedMs : ReadChunk(1, value, e)
    \/ ReadRejected(1)
    \/ ReadDone(1)
    \/ ParseResolved(1)
    \/ ParseRejected(1)
    \/ \E im \in OnePixelImages : GetImageResolved(1, im)
    \/ GetImageRejected(1)
    \/ RastersResolved(1, FixedRaster(load[1].image))
    \/ RastersRejected(1)
    \/ \E hasContext \in BOOLEAN : PrepareViewer(1, hasContext)
    \/ TimerFires(1)

SpecLoad == Init /\ [][NextLoad]_vars

(***************************************************************************)
(* SpecNorm: one load of a valid file, every image and raster within the   *)
(* bounds, up to the bitmap loadAndProcessTiff returns.                    *)
(***************************************************************************)
NextNorm ==
    \/ Mount
    \/ OsdResolved(1)
    \/ FetchResolved(1, OkResponse, 8, TRUE)
    \/ load[1].chunks = <<>> /\ ReadChunk(1, HeaderII, 0)
    \/ load[1].chunks # <<>> /\ ReadDone(1)
    \/ ParseResolved(1)
    \/ /\ load[1].pc = "image"
       /\ \E im \in BoundedImages : GetImageResolved(1, im)
    \/ /\ load[1].pc = "rasters"
       /\ \E data \in Rasters(load[1].image) : RastersResolved(1, data)

SpecNorm == Init /\ [][NextNorm]_vars

(***************************************************************************)
(* SpecTwice: SpecNorm with the normalization applied once more to the     *)
(* raster the first application left behind.                               *)
(***************************************************************************)
NextTwice ==
    \/ NextNorm
    \/ NormalizeAgain(1)

SpecTwice == Init /\ [][NextTwice]_vars

(***************************************************************************)
(* SpecValidate: one load of an unknown size whose stream delivers every   *)
(* sequence of up to MaxChunks of the ValidateChunks, up to validation.    *)
(***************************************************************************)
\* markers, magic numbers in both byte orders with and without the IFD
\* offset, and whole headers
ValidateChunks ==
    {<<73, 73>>, <<77, 77>>, <<73, 77>>, <<42, 0>>, <<0, 42>>,
     <<42, 0, 8, 0, 0, 0>>, <<0, 42, 0, 0, 0, 8>>, <<0, 0, 0, 0, 0, 0>>,
     HeaderII, <<>>}

NextValidate ==
    \/ Mount
    \/ OsdResolved(1)
    \/ FetchResolved(1, OkResponse, 0, TRUE)
    \/ \E value \in ValidateChunks : ReadChunk(1, value, 0)
    \/ ReadDone(1)

SpecValidate == Init /\ [][NextValidate]_vars

(***************************************************************************)
(* SpecRetry: the component when tiffPath changes only after the current   *)
(* load has failed.  A timer that was set fires.                           *)
(***************************************************************************)
NextRetry ==
    \/ Mount
    \/ started >= 1 /\ load[started].pc = "failed" /\ ChangePath
    \/ \E l \in Loads : OsdResolved(l)
    \/ \E l \in Loads : OsdRejected(l)
    \/ \E l \in Loads : FetchRejected(l)
    \/ \E l \in Loads, response \in {OkResponse, Response(404, "Not Found")},
            hasBody \in BOOLEAN, t \in {8} :
            FetchResolved(l, response, t, hasBody)
    \/ \E l \in Loads : load[l].chunks = <<>> /\ ReadChunk(l, HeaderII, 0)
    \/ \E l \in Loads : ReadRejected(l)
    \/ \E l \in Loads : ReadDone(l)
    \/ \E l \in Loads : ParseResolved(l)
    \/ \E l \in Loads : ParseRejected(l)
    \/ \E l \in Loads, im \in SmallImages : GetImageResolved(l, im)
    \/ \E l \in Loads : GetImageRejected(l)
    \/ \E l \in Loads : RastersResolved(l, FixedRaster(load[l].image))
    \/ \E l \in Loads : RastersRejected(l)
    \/ \E l \in Loads, hasContext \in BOOLEAN : PrepareViewer(l, hasContext)
    \/ \E l \in Loads : TimerFires(l)

SpecRetry ==
    /\ Init
    /\ [][NextRetry]_vars
    /\ \A l \in Loads : WF_vars(TimerFires(l))

(***************************************************************************)
(* Properties.                                                             *)
(***************************************************************************)
\* a sequence of percents never decreases
NonDecreasing(ps) == \A i \in 1..(Len(ps) - 1) : PctLE(ps[i], ps[i + 1])

\* the smallest and the largest element of a non-empty set of integers
SetMin(S) == CHOOSE x \in S : \A y \in S : x <= y

SetMax(S) == CHOOSE x \in S : \A y \in S : x >= y

Range(seq) == {seq[i] : i \in 1..Len(seq)}

\* r is num/den rounded to the nearest integer, halves upwards (den > 0)
IsRounded(r, num, den) == 2 * r * den - den <= 2 * num /\ 2 * num < 2 * r * den + den

\* load l is a continuation's actor in this step, and was superseded before it
StaleStep(l) == load[l].pc # "idle" /\ ~load[l].isMounted /\ load'[l] # load[l]

\* C1: once a load is superseded (its effect cleanup ran), none of its later
\* continuations (progress callback, "Preparing viewer", success tail, timer)
\* changes loadingProgress, loadingStage, estimatedTime or isLoading, or
\* attaches onLoad.
C1_StaleContinuationIsNoOp ==
    [][\A l \in Loads :
        StaleStep(l) =>
            /\ UNCHANGED <<loadingProgress, loadingStage, estimatedTime, isLoading>>
            /\ hist'[l].onLoadHandlers = hist[l].onLoadHandlers]_vars

\* C2: the failure of a superseded load sets no error, does not clear
\* isLoading and does not call onError; and once the current load has
\* succeeded the error state is null.
C2_StaleFailureIsNoOp ==
    /\ [][\A l \in Loads :
            (StaleStep(l) /\ load'[l].pc = "failed") =>
                /\ error' = error
                /\ isLoading' = isLoading
                /\ hist'[l].onErrorCalls = hist[l].onErrorCalls]_vars
    /\ [](\A l \in Loads :
            (alive /\ l = started /\ load[l].pc \in {"done", "settled"}) =>
                error = "null")

\* C3: within one load every write to loadingProgress is in [0,100] and is
\* not below the write before it.
C3_DisplayedPercentMonotone ==
    \A l \in Loads :
        /\ NonDecreasing(<<hist[l].writePrev>> \o hist[l].written)
        /\ \A i \in 1..Len(hist[l].written) :
              PctLE(Pct(0), hist[l].written[i]) /\ PctLE(hist[l].written[i], Pct(100))

\* C4: the percents loadAndProcessTiff passes to the progress sink never
\* decrease within a load, whatever the chunks and the content-length.
C4_SinkPercentNonDecreasing ==
    \A l \in Loads : NonDecreasing(<<hist[l].sinkPrev>> \o hist[l].emitted)

\* a load delivered more bytes than its content-length announced, in several
\* chunks, and ran to the bitmap
C4_Witness ==
    /\ load[1].pc = "loaded"
    /\ load[1].totalSize > 0
    /\ Len(load[1].chunks) >= 2
    /\ load[1].downloadedSize > load[1].totalSize
    /\ hist[1].emitted[3] = Pct(100)

\* C5: a 16-bit raster with min < max is stretched over its observed range:
\* each sample v becomes round(((v - min) / (max - min)) * 255), so that
\* [100, 200, 300, 400] becomes [0, 85, 170, 255].
C5_StretchOverObservedRange ==
    \A l \in Loads :
        (load[l].pc = "loaded" /\ load[l].image.kind = "Uint16Array"
            /\ SetMin(Range(load[l].data)) < SetMax(Range(load[l].data))) =>
        LET data == load[l].data
            mn == SetMin(Range(data))
            mx == SetMax(Range(data))
        IN  /\ Len(load[l].normalizedData) = Len(data)
            /\ \A i \in 1..Len(data) :
                  /\ load[l].normalizedData[i] \in 0..255
                  /\ IsRounded(load[l].normalizedData[i], (data[i] - mn) * 255, mx - mn)
            /\ data = <<100, 200, 300, 400>> =>
                  load[l].normalizedData = <<0, 85, 170, 255>>

C5_Witness ==
    /\ load[1].pc = "loaded"
    /\ load[1].image.bits = 16
    /\ load[1].data = <<100, 200, 300, 400>>
    /\ load[1].normalizedData = <<0, 85, 170, 255>>

\* C6: a 16-bit raster whose samples all equal m becomes uniformly
\* round((m / 65535) * 255); [500, 500, 500] becomes [2, 2, 2].
C6_DegenerateRange ==
    \A l \in Loads :
        (load[l].pc = "loaded" /\ load[l].image.kind = "Uint16Array"
            /\ load[l].image.bits = 16 /\ Cardinality(Range(load[l].data)) = 1) =>
        LET m == load[l].data[1]
        IN  /\ Len(load[l].normalizedData) = Len(load[l].data)
            /\ \A i \in 1..Len(load[l].data) :
                  IsRounded(load[l].normalizedData[i], m * 255, 65535)
            /\ load[l].data = <<500, 500, 500>> => load[l].normalizedData = <<2, 2, 2>>

C6_Witness ==
    /\ load[1].pc = "loaded"
    /\ load[1].data = <<500, 500, 500>>
    /\ load[1].normalizedData = <<2, 2, 2>>

\* C7: a 32-bit float raster with no finite sample normalizes, without
\* failing, to as many zeros as it has samples, and the bitmap has
\* width*height*4 bytes with R, G and B all 0.
C7_NoFiniteSampleGivesZeros ==
    \A l \in Loads :
        (load[l].pc \in {"loaded", "failed"} /\ load[l].image.kind = "Float32Array"
            /\ load[l].data # <<>>
            /\ \A i \in 1..Len(load[l].data) : ~isFinite(load[l].data[i])) =>
        /\ load[l].pc = "loaded"
        /\ Len(load[l].normalizedData) = Len(load[l].data)
        /\ \A i \in 1..Len(load[l].data) : load[l].normalizedData[i] = 0
        /\ Len(load[l].pixelData) = load[l].image.width * load[l].image.height * 4
        /\ \A k \in 1..Len(load[l].pixelData) :
              (k - 1) % 4 # 3 => load[l].pixelData[k] = 0

\* a three-channel float image of two pixels, all NaN or +Infinity
C7_Witness ==
    /\ load[1].pc = "loaded"
    /\ load[1].image.kind = "Float32Array"
    /\ load[1].image.samplesPerPixel >= 3
    /\ Len(load[1].data) = 6
    /\ \A i \in 1..6 : ~isFinite(load[1].data[i])
    /\ \E i \in 1..6 : load[1].data[i] = PInf
    /\ \E i \in 1..6 : load[1].data[i] = NaN

\* C8: every bitmap loadAndProcessTiff returns has width*height*4 bytes, all
\* in [0,255], and the alpha byte of each of the width*height pixels is 255.
C8_BitmapShape ==
    \A l \in Loads :
        load[l].pc = "loaded" =>
        /\ Len(load[l].pixelData) = load[l].image.width * load[l].image.height * 4
        /\ \A k \in 1..Len(load[l].pixelData) : load[l].pixelData[k] \in 0..255
        /\ \A p \in 0..(load[l].image.width * load[l].image.height - 1) :
              load[l].pixelData[4 * p + 4] = 255

\* a 2x2 single-channel 16-bit bitmap
C8_Witness ==
    /\ load[1].pc = "loaded"
    /\ load[1].image.samplesPerPixel = 1
    /\ load[1].image.bits = 16
    /\ load[1].image.width = 2
    /\ load[1].image.height = 2
    /\ Len(load[1].pixelData) = 16

\* C9: a single-channel 1-bit raster is binarized sample by sample: > 0 gives
\* 255 and 0 gives 0; [0, 5, 0, 255] becomes [0, 255, 0, 255].
C9_OneBitBinarized ==
    \A l \in Loads :
        (load[l].pc = "loaded" /\ load[l].image.samplesPerPixel = 1
            /\ load[l].image.bits = 1) =>
        /\ Len(load[l].normalizedData) = Len(load[l].data)
        /\ \A i \in 1..Len(load[l].data) :
              /\ load[l].data[i] > 0 => load[l].normalizedData[i] = 255
              /\ load[l].data[i] = 0 => load[l].normalizedData[i] = 0
        /\ load[l].data = <<0, 5, 0, 255>> =>
              load[l].normalizedData = <<0, 255, 0, 255>>

C9_Witness ==
    /\ load[1].pc = "loaded"
    /\ load[1].image.samplesPerPixel = 1
    /\ load[1].image.bits = 1
    /\ load[1].data = <<0, 5, 0, 255>>
    /\ load[1].normalizedData = <<0, 255, 0, 255>>

\* C10: in a multi-channel bitmap pixel p holds, in this order, the
\* normalized samples 3p, 3p+1, 3p+2 and 255; the intensities [10, 20, 30]
\* of one pixel give [10, 20, 30, 255].
C10_RGBAssembly ==
    \A l \in Loads :
        (load[l].pc = "loaded" /\ load[l].image.samplesPerPixel >= 3) =>
        /\ \A p \in 0..(load[l].image.width * load[l].image.height - 1) :
              /\ load[l].pixelData[4 * p + 1] = load[l].normalizedData[3 * p + 1]
              /\ load[l].pixelData[4 * p + 2] = load[l].normalizedData[3 * p + 2]
              /\ load[l].pixelData[4 * p + 3] = load[l].normalizedData[3 * p + 3]
              /\ load[l].pixelData[4 * p + 4] = 255
        /\ load[l].normalizedData = <<10, 20, 30>> =>
              load[l].pixelData = <<10, 20, 30, 255>>

\* two pixels with distinct channels, the first one [10, 20, 30]
C10_Witness ==
    /\ load[1].pc = "loaded"
    /\ load[1].image.samplesPerPixel = 3
    /\ load[1].normalizedData = <<10, 20, 30, 30, 0, 10>>
    /\ load[1].pixelData = <<10, 20, 30, 255, 30, 0, 10, 255>>


\* C11: a single-channel 8-bit raster passes through unchanged: pixel p of
\* the bitmap is (s[p], s[p], s[p], 255); the 2x2 image [0, 128, 255, 64]
\* gives [0,0,0,255, 128,128,128,255, 255,255,255,255, 64,64,64,255].
C11_GrayEightBitPassThrough ==
    \A l \in Loads :
        (load[l].pc = "loaded" /\ load[l].image.samplesPerPixel = 1
            /\ load[l].image.bits = 8) =>
        /\ Len(load[l].pixelData) = 4 * Len(load[l].raster)
        /\ \A p \in 0..(Len(load[l].raster) - 1) :
              /\ load[l].pixelData[4 * p + 1] = load[l].raster[p + 1]
              /\ load[l].pixelData[4 * p + 2] = load[l].raster[p + 1]
              /\ load[l].pixelData[4 * p + 3] = load[l].raster[p + 1]
              /\ load[l].pixelData[4 * p + 4] = 255
        /\ (load[l].raster = <<0, 128, 255, 64>>
                /\ load[l].image.width = 2 /\ load[l].image.height = 2) =>
              load[l].pixelData = <<0, 0, 0, 255, 128, 128, 128, 255,
                                    255, 255, 255, 255, 64, 64, 64, 255>>

C11_Witness ==
    /\ load[1].pc = "loaded"
    /\ load[1].image = Image(2, 2, 1, [bits |-> 8, kind |-> "Uint8Array"])
    /\ load[1].raster = <<0, 128, 255, 64>>
    /\ load[1].pixelData[5] = 128
    /\ load[1].pixelData[13] = 64

C13_ValidIffMarkerAndMagic ==
    \A l \in Loads :
        (load[l].validation # NoValidation /\ Len(load[l].arrayBuffer) >= 8) =>
        LET b == load[l].arrayBuffer
        IN  /\ load[l].validation.isValid <=>
                  \/ b[1] = 73 /\ b[2] = 73 /\ b[3] = 42 /\ b[4] = 0
                  \/ b[1] = 77 /\ b[2] = 77 /\ b[3] = 0 /\ b[4] = 42
            /\ load[l].validation.isValid <=> load[l].pc = "parse"

\* a big-endian header that arrived in two chunks was accepted
C13_Witness ==
    /\ load[1].pc = "parse"
    /\ load[1].chunks = <<<<77, 77>>, <<0, 42, 0, 0, 0, 8>>>>
    /\ load[1].validation.isValid

\* C14: validateTiff answers invalid on every buffer shorter than 8 bytes,
\* also on one that begins with a correct marker and magic number.
C14_ShortBufferInvalid ==
    \A l \in Loads :
        (load[l].validation # NoValidation /\ Len(load[l].arrayBuffer) < 8) =>
            /\ ~load[l].validation.isValid
            /\ load[l].pc = "failed"

\* four bytes, "II" and 42, were rejected
C14_Witness ==
    /\ load[1].pc = "failed"
    /\ load[1].arrayBuffer = <<73, 73, 42, 0>>
    /\ load[1].validation # NoValidation
    /\ ~load[1].validation.isValid

\* the four results validateTiff builds outside its catch block
ValidationResults ==
    {[isValid |-> TRUE, message |-> "Valid TIFF file"],
     [isValid |-> FALSE, message |-> "File is too small to be a valid TIFF"],
     [isValid |-> FALSE, message |-> "Invalid TIFF byte order marker"],
     [isValid |-> FALSE, message |-> "Invalid TIFF magic number"]}

\* the bytes of the chunks, one after the other
RECURSIVE Flatten(_)
Flatten(chunks) ==
    IF chunks = <<>> THEN <<>> ELSE Head(chunks) \o Flatten(Tail(chunks))

C16_UnsupportedChannelsRejected ==
    \A l \in Loads :
        (load[l].image # NoImage /\ load[l].image.samplesPerPixel \notin {1, 3, 4}) =>
            /\ load[l].pc = "failed"
            /\ load[l].err =
                  WrapLoad(WrapParse(<<"Unsupported number of samples per pixel">>))
            /\ load[l].pixelData = <<>>

\* C17: when the response is not ok, or is ok but has no body to read, the
\* load fails (with the status and the status text in the first case), no
\* chunk is read and validation, decoding and normalization do not run.
C17_BadResponseStopsTheLoad ==
    \A l \in Loads :
        (load[l].response # NoResponse
            /\ (~load[l].response.ok \/ ~load[l].hasBody)) =>
            /\ load[l].pc = "failed"
            /\ ~load[l].response.ok =>
                  load[l].err = WrapLoad(<<"Failed to fetch TIFF",
                                           load[l].response.status,
                                           load[l].response.statusText>>)
            /\ (load[l].response.ok /\ ~load[l].hasBody) =>
                  load[l].err = WrapLoad(<<"Could not get stream reader">>)
            /\ load[l].chunks = <<>>
            /\ load[l].downloadedSize = 0
            /\ load[l].validation = NoValidation
            /\ load[l].image = NoImage
            /\ load[l].normalizedData = <<>>
            /\ load[l].pixelData = <<>>
            /\ Len(hist[l].onErrorCalls) = 1

\* a 404 answer that had a body
C17_Witness ==
    /\ load[1].pc = "failed"
    /\ load[1].response.status = 404
    /\ load[1].hasBody
    /\ load[1].err = WrapLoad(<<"Failed to fetch TIFF", 404, "Not Found">>)

\* the number of bytes in the chunks before chunk i
RECURSIVE LenBefore(_, _)
LenBefore(chunks, i) ==
    IF i <= 1 THEN 0 ELSE LenBefore(chunks, i - 1) + Len(chunks[i - 1])

\* C18: the buffer handed to validateTiff is the concatenation of the chunks
\* in arrival order: as long as all of them together, with byte k of chunk i
\* at offset (bytes of the chunks before i) + k.
C18_BufferIsConcatenation ==
    \A l \in Loads :
        load[l].validation # NoValidation =>
            /\ Len(load[l].arrayBuffer) = LenBefore(load[l].chunks, Len(load[l].chunks) + 1)
            /\ Len(load[l].arrayBuffer) = load[l].downloadedSize
            /\ \A i \in 1..Len(load[l].chunks) :
                  \A k \in 1..Len(load[l].chunks[i]) :
                      load[l].arrayBuffer[LenBefore(load[l].chunks, i) + k]
                          = load[l].chunks[i][k]

\* three chunks of different lengths, the header split over the first two
C18_Witness ==
    /\ load[1].pc = "parse"
    /\ load[1].chunks = <<<<73, 73, 42, 0>>, <<8, 0, 0, 0>>, <<0, 0>>>>
    /\ load[1].arrayBuffer = <<73, 73, 42, 0, 8, 0, 0, 0, 0, 0>>

\* C19: per load onError is called at most once and only when the load
\* failed; onLoad is attached at most once and only to a widget constructed
\* from the bitmap of a load that succeeded; and never both.
C19_SinksAtMostOnce ==
    \A l \in Loads :
        /\ Len(hist[l].onErrorCalls) <= 1
        /\ Len(hist[l].onErrorCalls) = 1 => load[l].pc = "failed"
        /\ hist[l].onLoadHandlers <= 1
        /\ hist[l].onLoadHandlers = 1 =>
              /\ hist[l].widget # "none"
              /\ load[l].pc \in {"done", "settled"}
              /\ load[l].pixelData # <<>>
        /\ ~(Len(hist[l].onErrorCalls) >= 1 /\ hist[l].onLoadHandlers >= 1)

\* the first load failed and told onError, the second one attached onLoad
C19_Witness ==
    /\ Len(hist[1].onErrorCalls) = 1
    /\ hist[1].onLoadHandlers = 0
    /\ hist[2].onLoadHandlers = 1
    /\ hist[2].onErrorCalls = <<>>
    /\ hist[2].widget = "live"

\* C20: every error passed to onError is a wrapped one, whichever stage
\* raised it, and a failure is reported once.
C20_OnlyWrappedErrorsReachSink ==
    \A l \in Loads :
        /\ Len(hist[l].onErrorCalls) <= 1
        /\ \A i \in 1..Len(hist[l].onErrorCalls) :
              /\ Len(hist[l].onErrorCalls[i]) >= 2
              /\ Head(hist[l].onErrorCalls[i]) = "Failed to load TIFF image"


\* C21: a failed load leaves the component ready: the next load (a tiffPath
\* change) clears the error, sets isLoading and resets the progress; when it
\* succeeds it ends with error = null and a constructed widget, and
\* isLoading becomes false; no load is retried: a failed load stays failed
\* and each load reaches its fetch once.
C21_FailedLoadLeavesReady ==
    /\ [][(started >= 1 /\ started' # started) =>
            /\ load[started].pc = "failed"
            /\ error # "null"
            /\ error' = "null"
            /\ isLoading'
            /\ hist'[started'].reset # <<>>
            /\ hist'[started'].reset[1].p = Pct(0)
            /\ load'[started'].pc = "osd"]_vars
    /\ [][\A l \in Loads :
            /\ load[l].pc = "failed" => load'[l].pc = "failed"
            /\ (load'[l].pc = "fetch" /\ load[l].pc # "fetch") => load[l].pc = "osd"
            /\ (load'[l].pc = "osd" /\ load[l].pc # "osd") => load[l].pc = "idle"]_vars
    /\ [](\A l \in Loads :
            (l >= 2 /\ l = started /\ load[l].pc \in {"done", "settled"}) =>
                /\ error = "null"
                /\ hist[l].widget = "live"
                /\ viewerInstance = l)
    /\ \A l \in Loads : (l >= 2 /\ load[l].pc = "done") ~> (~isLoading)

\* the first load failed, the second one succeeded and its timer has fired
C21_Witness ==
    /\ load[1].pc = "failed"
    /\ Len(hist[1].onErrorCalls) = 1
    /\ started = 2
    /\ load[2].pc = "settled"
    /\ error = "null"
    /\ ~isLoading
    /\ hist[2].widget = "live"

\* C22: at most one widget the component constructed is live; a widget is
\* constructed only by the current load of a mounted component and only when
\* every earlier widget has been destroyed; after the unmount none is live.
C22_AtMostOneLiveWidget ==
    /\ Cardinality({l \in Loads : hist[l].widget = "live"}) <= 1
    /\ \A l \in Loads :
          hist[l].widget = "live" => (alive /\ l = started /\ viewerInstance = l)
    /\ \A l \in Loads :
          (hist[l].widget # "none" /\ l < started) => hist[l].widget = "destroyed"
    /\ ~alive => \A l \in Loads : hist[l].widget # "live"

\* the widget of the first load was destroyed and the second load has its own
C22_Witness ==
    /\ hist[1].widget = "destroyed"
    /\ hist[2].widget = "live"
    /\ viewerInstance = 2

\* C23: at the start of each load the progress state is reset to percent 0,
\* stage "Initializing..." and no ETA (0 stands for null).
C23_ResetToZeroInitializingNull ==
    \A l \in Loads :
        load[l].pc # "idle" =>
            hist[l].reset = <<[p |-> Pct(0), stage |-> "Initializing...", eta |-> 0]>>

\* C24: with no declared total size the percents reported for the chunks of
\* a download of several chunks are not all the same value.
C24_UnknownSizeProgressAdvances ==
    \A l \in Loads :
        (load[l].hasBody /\ load[l].totalSize = 0 /\ Len(load[l].reported) >= 2) =>
            \E i, j \in 1..Len(load[l].reported) :
                ~PctEq(load[l].reported[i], load[l].reported[j])

\* C25: with a declared total size the percent reported for a chunk is
\* 10 + 50 * min(1, bytesSoFar / total): at least 10, at most 60, also when
\* the bytes received exceed the total.
C25_KnownSizeProgressClamped ==
    \A l \in Loads :
        load[l].totalSize > 0 =>
            \A i \in 1..Len(load[l].reported) :
                LET soFar == LenBefore(load[l].chunks, i + 1)
                    total == load[l].totalSize
                    p == load[l].reported[i]
                IN  /\ PctLE(Pct(10), p)
                    /\ PctLE(p, Pct(60))
                    /\ soFar <= total => p.n * total = p.d * (10 * total + 50 * soFar)
                    /\ soFar >= total => PctEq(p, Pct(60))

\* 8, 16 and 24 bytes received of 16 declared: 35, 60 and 60 percent
C25_Witness ==
    /\ load[1].totalSize = 16
    /\ load[1].downloadedSize = 24
    /\ Len(load[1].reported) = 3
    /\ PctEq(load[1].reported[1], Pct(35))
    /\ PctEq(load[1].reported[2], Pct(60))
    /\ PctEq(load[1].reported[3], Pct(60))


\* the buffer starts with a TIFF header of either byte order
HeaderOk(b) ==
    /\ Len(b) >= 8
    /\ \/ b[1] = 73 /\ b[2] = 73 /\ b[3] = 42 /\ b[4] = 0
       \/ b[1] = 77 /\ b[2] = 77 /\ b[3] = 0 /\ b[4] = 42

\* C26: the stages run in order and validation gates the decode: the parser
\* is called only with the whole downloaded buffer and only when it starts
\* with a valid header; a buffer validateTiff refuses ends the load before
\* the parser; samples are read and converted only for an image the parser
\* returned.
C26_ValidationGatesDecoding ==
    \A l \in Loads :
        /\ load[l].pc = "read" =>
              load[l].validation = NoValidation /\ load[l].image = NoImage
        /\ load[l].pc \in {"parse", "image", "rasters", "loaded", "done", "settled"} =>
              /\ load[l].validation # NoValidation
              /\ HeaderOk(load[l].arrayBuffer)
              /\ load[l].arrayBuffer = Flatten(load[l].chunks)
        /\ load[l].image # NoImage => HeaderOk(load[l].arrayBuffer)
        /\ (load[l].validation # NoValidation /\ ~HeaderOk(load[l].arrayBuffer)) =>
              /\ load[l].pc = "failed"
              /\ load[l].err[2] = "Invalid TIFF file"
              /\ load[l].image = NoImage
        /\ (load[l].raster # <<>> \/ load[l].normalizedData # <<>>
                \/ load[l].pixelData # <<>>) =>
              load[l].image # NoImage /\ load[l].image.samplesPerPixel \notin {0, 2}

\* a header that came in two chunks was validated, parsed and converted
C26_Witness ==
    /\ load[1].pc = "loaded"
    /\ load[1].chunks = <<<<73, 73, 42, 0>>, <<8, 0, 0, 0>>>>
    /\ load[1].validation.isValid
    /\ load[1].pixelData # <<>>

\* C27: while the current load is in flight (started, neither completed nor
\* failed) isLoading is true.
C27_LoadingShownWhileInFlight ==
    (alive /\ started >= 1) =>
        (load[started].pc \in {"osd", "fetch", "read", "parse", "image", "rasters",
                               "loaded"}
            => isLoading)

\* C28: a raster of 3 or more channels at 1 bit per sample is binarized
\* sample by sample (> 0 gives 255, 0 gives 0) before the RGBA assembly.
C28_OneBitMultiChannelBinarized ==
    \A l \in Loads :
        (load[l].pc = "loaded" /\ load[l].image.samplesPerPixel >= 3
            /\ load[l].image.bits = 1) =>
        \A i \in 1..Len(load[l].raster) :
            load[l].normalizedData[i] = IF load[l].raster[i] > 0 THEN 255 ELSE 0

\* the finite values of a float raster
FiniteValues(raster) == {raster[i].v : i \in {j \in 1..Len(raster) : isFinite(raster[j])}}

\* C29: in a 32-bit float raster with two distinct finite values min and max
\* are those of the finite samples; a non-finite sample becomes 0 and a
\* finite sample v becomes round(((v - min) / (max - min)) * 255).
C29_FloatStretchOverFiniteSamples ==
    \A l \in Loads :
        (load[l].pc = "loaded" /\ load[l].image.kind = "Float32Array"
            /\ Cardinality(FiniteValues(load[l].raster)) >= 2) =>
        LET mn == SetMin(FiniteValues(load[l].raster))
            mx == SetMax(FiniteValues(load[l].raster))
        IN  \A i \in 1..Len(load[l].raster) :
                IF isFinite(load[l].raster[i])
                THEN /\ load[l].normalizedData[i] \in 0..255
                     /\ IsRounded(load[l].normalizedData[i],
                                  (load[l].raster[i].v - mn) * 255, mx - mn)
                ELSE load[l].normalizedData[i] = 0

\* -1 and 3 among -Infinity and NaN
C29_Witness ==
    /\ load[1].pc = "loaded"
    /\ load[1].image.kind = "Float32Array"
    /\ load[1].raster = <<NInf, Fin(-1), Fin(3), NaN>>
    /\ load[1].normalizedData = <<0, 0, 255, 0>>

\* C30: a load that has reported 100 percent to the progress sink does not
\* end in the error state and does not call onError.
C30_HundredPercentMeansSuccess ==
    \A l \in Loads :
        (\E i \in 1..Len(hist[l].emitted) : PctEq(hist[l].emitted[i], Pct(100))) =>
            /\ load[l].pc # "failed"
            /\ hist[l].onErrorCalls = <<>>

====
